---- MODULE Spec2Model ----
(***************************************************************************)
(* Streaming group-by of antenna readings into one vector per beacon key.  *)
(* Model of HDF5Storage (src/src/hdf5_storage.py), OutputProcessor         *)
(* (src/src/output_processor.py) and the run in main (src/src/main.py).    *)
(*                                                                         *)
(* The HDF5 "beacons" group is a function from beacon keys to groups; a    *)
(* group is a record holding the antenna_id_dbm_map sub-group (a function  *)
(* from antenna ids to dbm values) and the sampled_antennas_count          *)
(* attribute.  Beacon keys are the pairs <<BeaconId, timestamp>> that the  *)
(* code formats as "<BeaconId>, <timestamp>"; timestamps are names without *)
(* the HDF5 path separator.                                                *)
(*                                                                         *)
(* Spec is the run in an environment whose calls succeed, on inputs of at  *)
(* most MaxLines lines.  FaultSpec is the run in an environment whose      *)
(* calls can raise (in the setup, in the writes made for a reading or by   *)
(* the residual flush, in the teardown), on inputs of at most              *)
(* MaxFaultLines lines.                                                    *)
(***************************************************************************)
EXTENDS Integers, Sequences, FiniteSets, TLC

\* ---------------------------------------------------------------- bounds
MaxAnt == 3
MaxLines == 4
MaxFaultLines == 3

\* ------------------------------------------------------------- constants
ANTENNA_IDS == <<201, 202, 203, 204, 205, 206>>
DEFAULT_DBM_ANT_VALUE == -135

Range(s) == {s[i] : i \in DOMAIN s}

\* ---------------------------------------------------------- input domain
BeaconIds == {101, 102}
\* Timestamps, listed in the order of their names.
TimestampNames == <<"2016-11-22T09:48:00.00Z">>
Timestamps == Range(TimestampNames)
DbmValues == {-58, -77}

\* The expected antenna lists a run may be configured with.
ExpectedConfigs == {SubSeq(ANTENNA_IDS, 1, n) : n \in 1..MaxAnt}

\* Antenna ids that occur in the input: the expected ones and one more.
InputAntennaIds(expected) == {ANTENNA_IDS[i] : i \in 1..(Len(expected) + 1)}

\* The validated documents (JSONDocumentModel instances) a line may carry.
JSONDocumentModel(expected) ==
    [beacon_id : BeaconIds, ant_id : InputAntennaIds(expected),
     dbm_ant : DbmValues, timestamp : Timestamps]

VARIABLES
    expected_antenna_ids,   \* HDF5Storage._expected_antenna_ids
    pc,                     \* position of main in the guarded run
    exc,                    \* the exception in flight, or "none"
    hdf5_storage,           \* what the with statement bound: "self" or "None"
    line_index,             \* line_index of parse_json_documents_from_file
    tmp_file,               \* "none", "open" or "closed"
    hdf5_root_file,         \* "none", "open" or "closed"
    hdf5_beacons_group,     \* beacon key -> group
    json_results_file,      \* "none", "open" or "closed"
    file_content,           \* what has been written to the results file
    results_records_count,  \* OutputProcessor._results_records_count
    \* history of the run, read by the properties only
    received,               \* set of <<key, ant_id, dbm_ant>> processed
    received_count,         \* key -> number of documents processed
    last_document,          \* the document processed last, if any
    emit_log,               \* one entry per record handed to the sink
    input_so_far,           \* the lines read: "nothing", "[", "[ ]" (the
                            \* two brackets), "... ]" (other lines and the
                            \* closing bracket) or "other"
    teardown                \* the calls made and errors caught by __exit__

vars == <<expected_antenna_ids, pc, exc, hdf5_storage, line_index, tmp_file,
          hdf5_root_file, hdf5_beacons_group, json_results_file,
          file_content, results_records_count, received, received_count,
          last_document, emit_log, input_so_far, teardown>>

history == <<received, received_count, last_document, emit_log>>

BeaconKeys == BeaconIds \X Timestamps

\* f"{json_record.beacon_id}, {json_record.timestamp}"
beacon_key(json_record) == <<json_record.beacon_id, json_record.timestamp>>

EmptyFunction == [x \in {} |-> 0]

\* An absent optional argument is the empty sequence, a present one <<v>>.
None == <<>>
Some(v) == <<v>>


\* ------------------------------------------------------------ Output Sink
OpenMarker == [token |-> "["]
CloseMarker == [token |-> "]"]
Separator == [token |-> ","]
RecordToken(record) ==
    [token |-> "record", beacon |-> record.beacon, vector |-> record.vector]

\* Faulty variant of persist_record: the separating comma is written after
\* every record.
persist_record_trailing_separator(sink, record) ==
    [content |-> sink.content \o <<RecordToken(record), Separator>>,
     count |-> sink.count + 1]

\* OutputProcessor.persist_record on a sink <<content, count>>: a separating
\* comma before every record after the first, then the record, count + 1.
persist_record(sink, record) ==
    LET separated == IF sink.count > 0
                     THEN Append(sink.content, Separator)
                     ELSE sink.content
    IN  [content |-> Append(separated, RecordToken(record)),
         count |-> sink.count + 1]

\* The writes of persist_record that can raise: the write of the separating
\* comma, made only when count > 0, and the dump of the record.
SinkFaults == {"separator", "dump"}

sink_can_raise(sink, fault) ==
    \/ fault = "dump"
    \/ fault = "separator" /\ sink.count > 0

\* OutputProcessor.persist_record when a write raises: a failing dump comes
\* after the separating comma was written, and the count is not incremented.
persist_record_raising(sink, fault) ==
    [content |-> IF fault = "dump" /\ sink.count > 0
                 THEN Append(sink.content, Separator)
                 ELSE sink.content,
     count |-> sink.count]

\* ------------------------------------------------------------ Scratch Store
\* A group as created by _process_json_record before any value is stored.
NewGroup == [datasets |-> EmptyFunction, sampled_antennas_count |-> 0]

\* hdf5_antenna_id_dbm_group.attrs.get(SAMPLED_ANTENNAS_COUNT_ATTR_NAME) or 0
already_sampled(group) == group.sampled_antennas_count

\* Faulty variant of _build_results_record: the dbm_ant of json_record is
\* preferred to the stored dataset.
build_results_record_document_first(group, key, json_record) ==
    LET slot(expected_ant_id) ==
            IF json_record /= None
               /\ expected_ant_id = json_record[1].ant_id
            THEN json_record[1].dbm_ant
            ELSE IF expected_ant_id \in DOMAIN group.datasets
                 THEN group.datasets[expected_ant_id]
                 ELSE DEFAULT_DBM_ANT_VALUE
    IN  [beacon |-> key,
         vector |-> [i \in 1..Len(expected_antenna_ids) |->
                        slot(expected_antenna_ids[i])]]

\* Faulty variant of _build_results_record: json_record is not consulted.
build_results_record_stored_only(group, key, json_record) ==
    LET slot(expected_ant_id) ==
            IF expected_ant_id \in DOMAIN group.datasets
            THEN group.datasets[expected_ant_id]
            ELSE DEFAULT_DBM_ANT_VALUE
    IN  [beacon |-> key,
         vector |-> [i \in 1..Len(expected_antenna_ids) |->
                        slot(expected_antenna_ids[i])]]

\* Faulty variant of _build_results_record: the dbm_ant of json_record fills
\* every slot without a dataset, whatever its ant_id.
build_results_record_any_antenna(group, key, json_record) ==
    LET slot(expected_ant_id) ==
            IF expected_ant_id \in DOMAIN group.datasets
            THEN group.datasets[expected_ant_id]
            ELSE IF json_record /= None
                 THEN json_record[1].dbm_ant
                 ELSE DEFAULT_DBM_ANT_VALUE
    IN  [beacon |-> key,
         vector |-> [i \in 1..Len(expected_antenna_ids) |->
                        slot(expected_antenna_ids[i])]]

\* HDF5Storage._build_results_record: one slot per expected antenna id, in
\* the configured order; the stored dataset when there is one, else the
\* dbm_ant of json_record when its ant_id is the expected one, else the
\* default value.
build_results_record(group, key, json_record) ==
    LET slot(expected_ant_id) ==
            IF expected_ant_id \in DOMAIN group.datasets
            THEN group.datasets[expected_ant_id]
            ELSE IF json_record /= None
                    /\ expected_ant_id = json_record[1].ant_id
                 THEN json_record[1].dbm_ant
                 ELSE DEFAULT_DBM_ANT_VALUE
    IN  [beacon |-> key,
         vector |-> [i \in 1..Len(expected_antenna_ids) |->
                        slot(expected_antenna_ids[i])]]

\* Faulty variant: the lookup of an expected id creates the missing dataset
\* with the default value.
group_after_build_filling(group) ==
    [group EXCEPT !.datasets =
        [a \in DOMAIN group.datasets \cup Range(expected_antenna_ids) |->
            IF a \in DOMAIN group.datasets THEN group.datasets[a]
            ELSE DEFAULT_DBM_ANT_VALUE]]

\* The group as _build_results_record leaves it: Group.get and dataset[()]
\* read the group, they create and change nothing.
group_after_build(group) == group

\* h5py Group.__setitem__ adds a link; the name must not already be in use.
NameInUse(group, json_record) == json_record.ant_id \in DOMAIN group.datasets

\* Faulty variant: the count attribute is written without the new sample.
persist_antenna_id_and_dbm_value_count_unchanged(group, json_record, count) ==
    [datasets |-> [a \in DOMAIN group.datasets \cup {json_record.ant_id} |->
                      IF a = json_record.ant_id
                      THEN json_record.dbm_ant
                      ELSE group.datasets[a]],
     sampled_antennas_count |-> count]

\* HDF5Storage._persist_antenna_id_and_dbm_value_in_hdf5 where the name is
\* free: the dataset is linked and the count attribute is set.
persist_antenna_id_and_dbm_value_in_hdf5(group, json_record, count) ==
    [datasets |-> [a \in DOMAIN group.datasets \cup {json_record.ant_id} |->
                      IF a = json_record.ant_id
                      THEN json_record.dbm_ant
                      ELSE group.datasets[a]],
     sampled_antennas_count |-> count + 1]

\* del self._hdf5_beacons_group[beacon_key]
\* Faulty variant: the group of a completed key is left in the store.
DeleteGroup_nothing(beacons, key) == beacons

DeleteGroup(beacons, key) == [k \in DOMAIN beacons \ {key} |-> beacons[k]]

PutGroup(beacons, key, group) ==
    [k \in DOMAIN beacons \cup {key} |-> IF k = key THEN group ELSE beacons[k]]

\* Faulty variants of the completion test: one sample early, one late.
IsLastExpectedSample_early(group) ==
    already_sampled(group) + 2 = Len(expected_antenna_ids)

IsLastExpectedSample_late(group) ==
    already_sampled(group) = Len(expected_antenna_ids)

\* The completion test of _process_antennas_samples_statistics.
IsLastExpectedSample(group) ==
    already_sampled(group) + 1 = Len(expected_antenna_ids)

\* The outcome of handling one document: the store and the sink afterwards,
\* the records handed to the sink, and whether an exception was raised.
Outcome(beacons, sink, emitted, raised) ==
    [beacons |-> beacons, sink |-> sink, emitted |-> emitted,
     raised |-> raised]

\* HDF5Storage._process_antennas_samples_statistics for a key whose group
\* exists.  When the count says this is the last expected sample the record
\* is built with json_record, handed to the sink, and the group is deleted;
\* otherwise the value is stored, which raises when the antenna's name is
\* already linked in the group.
process_antennas_samples_statistics(beacons, sink, key, json_record) ==
    LET group == beacons[key]
        already_sampled_antennas_count == already_sampled(group)
        result_record == build_results_record(group, key, Some(json_record))
    IN  IF IsLastExpectedSample(group)
        THEN Outcome(DeleteGroup(beacons, key),
                     persist_record(sink, result_record),
                     <<result_record>>, FALSE)
        ELSE IF NameInUse(group, json_record)
             THEN Outcome(beacons, sink, <<>>, TRUE)
             ELSE Outcome(PutGroup(beacons, key,
                              persist_antenna_id_and_dbm_value_in_hdf5(
                                  group, json_record,
                                  already_sampled_antennas_count)),
                          sink, <<>>, FALSE)

\* Faulty variant: the first reading of a key goes through the completion
\* test as well, against an empty group.
process_json_record_testing_first(beacons, sink, json_record) ==
    LET key == beacon_key(json_record)
    IN  process_antennas_samples_statistics(
            IF key \in DOMAIN beacons THEN beacons
            ELSE PutGroup(beacons, key, NewGroup),
            sink, key, json_record)

\* HDF5Storage._process_json_record: an existing group goes through
\* _process_antennas_samples_statistics, a new key gets a group holding the
\* document's value with count 1.  A beacon group is created together with
\* its antenna_id_dbm_map sub-group, so the warning branch for a group
\* without that sub-group is never taken.
process_json_record(beacons, sink, json_record) ==
    LET key == beacon_key(json_record)
    IN  IF key \in DOMAIN beacons
        THEN process_antennas_samples_statistics(beacons, sink, key,
                                                 json_record)
        ELSE Outcome(PutGroup(beacons, key,
                         persist_antenna_id_and_dbm_value_in_hdf5(
                             NewGroup, json_record, 0)),
                     sink, <<>>, FALSE)

\* The writes made while a document is processed that can raise: the write
\* to the HDF5 file and the two writes of persist_record.
WriteFaults == {"storage"} \cup SinkFaults

\* Whether _process_json_record makes the write that fault stands for: it
\* always writes to the HDF5 file, and to the sink on the completion path.
can_raise(beacons, sink, json_record, fault) ==
    LET outcome == process_json_record(beacons, sink, json_record)
    IN  /\ ~outcome.raised
        /\ \/ fault = "storage"
           \/ /\ fault \in SinkFaults
              /\ outcome.emitted /= <<>>
              /\ sink_can_raise(sink, fault)

\* HDF5Storage._process_json_record when a write raises.  A failing write
\* to the HDF5 file leaves the store as it was; on the completion path it is
\* the deletion of the group, made after the record was handed to the sink.
\* A failing write to the sink comes before the group is deleted.
process_json_record_raising(beacons, sink, json_record, fault) ==
    LET outcome == process_json_record(beacons, sink, json_record)
    IN  IF fault = "storage"
        THEN Outcome(beacons, outcome.sink, outcome.emitted, TRUE)
        ELSE Outcome(beacons, persist_record_raising(sink, fault), <<>>, TRUE)

\* Iteration of an h5py group yields its members in the order of their
\* names: "<BeaconId>, <timestamp>" with BeaconIds of equal width.
TimestampRank(ts) == CHOOSE i \in DOMAIN TimestampNames : TimestampNames[i] = ts

NameBefore(k1, k2) ==
    \/ k1[1] < k2[1]
    \/ k1[1] = k2[1] /\ TimestampRank(k1[2]) < TimestampRank(k2[2])

RECURSIVE GroupNames(_)
GroupNames(keys) ==
    IF keys = {} THEN <<>>
    ELSE LET first == CHOOSE k \in keys :
                          \A other \in keys \ {k} : NameBefore(k, other)
         IN  <<first>> \o GroupNames(keys \ {first})

\* HDF5Storage.persist_beacons_vectors_to_results_file: every group of the
\* store, in iteration order, is built without a json_record and handed to
\* the sink.  The closing "del hdf5_beacon_group" unbinds the local name
\* only, so the store keeps its groups.
RECURSIVE persist_groups(_, _, _, _)
persist_groups(beacons, names, sink, emitted) ==
    IF names = <<>> THEN Outcome(beacons, sink, emitted, FALSE)
    ELSE LET beacon_group_name == Head(names)
             result_record ==
                 build_results_record(beacons[beacon_group_name],
                                      beacon_group_name, None)
         IN  persist_groups(PutGroup(beacons, beacon_group_name,
                                     group_after_build(
                                         beacons[beacon_group_name])),
                            Tail(names),
                            persist_record(sink, result_record),
                            Append(emitted, result_record))

\* Faulty variant of the residual flush: no group is visited.
persist_beacons_vectors_nothing(beacons, sink) ==
    Outcome(beacons, sink, <<>>, FALSE)

persist_beacons_vectors_to_results_file(beacons, sink) ==
    persist_groups(beacons, GroupNames(DOMAIN beacons), sink, <<>>)

\* Whether the residual flush makes the write that fault stands for at its
\* nth group.
flush_can_raise(beacons, sink, nth, fault) ==
    LET names == GroupNames(DOMAIN beacons)
    IN  /\ nth \in 1..Len(names)
        /\ fault \in SinkFaults
        /\ sink_can_raise(persist_groups(beacons, SubSeq(names, 1, nth - 1),
                                         sink, <<>>).sink, fault)

\* HDF5Storage.persist_beacons_vectors_to_results_file when persist_record
\* raises at the nth group: the groups before it have been written.
persist_beacons_vectors_raising(beacons, sink, nth, fault) ==
    LET names == GroupNames(DOMAIN beacons)
        before == persist_groups(beacons, SubSeq(names, 1, nth - 1), sink,
                                 <<>>)
    IN  Outcome(beacons, persist_record_raising(before.sink, fault),
                before.emitted, TRUE)

\* ------------------------------------------------------------ Record Parser
\* A line of the input file is a sequence of characters.  The characters
\* that the parser looks at are kept apart; the text between the braces of
\* an object (its "name": value pairs, free of braces) is one item carrying
\* the dict that json.loads makes of it.
Char(c) == [ch |-> c]
Space == Char(" ")
OpenBracket == Char("[")
CloseBracket == Char("]")
OpenBrace == Char("{")
CloseBrace == Char("}")
Comma == Char(",")
Junk == Char("x")
Pairs(data) == [ch |-> "pairs", data |-> data]

\* JSON values: integers, other numbers and strings.
IntValue(n) == [int |-> n]
NumberValue(x) == [number |-> x]
StringValue(t) == [string |-> t]
IsInt(v) == "int" \in DOMAIN v
IsNumber(v) == "number" \in DOMAIN v
IsString(v) == "string" \in DOMAIN v

\* str.strip(): leading and trailing whitespace removed.
RECURSIVE lstrip(_)
lstrip(line) ==
    IF line /= <<>> /\ Head(line) = Space THEN lstrip(Tail(line)) ELSE line

RECURSIVE rstrip(_)
rstrip(line) ==
    IF line /= <<>> /\ line[Len(line)] = Space
    THEN rstrip(SubSeq(line, 1, Len(line) - 1))
    ELSE line

strip(line) == rstrip(lstrip(line))

\* str.index and str.rindex, as 1-based positions; 0 stands for ValueError.
index(line, c) ==
    IF \E i \in DOMAIN line : line[i] = c
    THEN CHOOSE i \in DOMAIN line :
             line[i] = c /\ \A j \in 1..(i - 1) : line[j] /= c
    ELSE 0

rindex(line, c) ==
    IF \E i \in DOMAIN line : line[i] = c
    THEN CHOOSE i \in DOMAIN line :
             line[i] = c /\ \A j \in (i + 1)..Len(line) : line[j] /= c
    ELSE 0

\* json.loads on a text that starts with "{": the dict of an object, or
\* None for JSONDecodeError.
json_loads(text) ==
    IF text = <<OpenBrace, CloseBrace>> THEN Some(EmptyFunction)
    ELSE IF /\ Len(text) = 3
            /\ text[1] = OpenBrace
            /\ text[2].ch = "pairs"
            /\ text[3] = CloseBrace
         THEN Some(text[2].data)
         ELSE None

\* Faulty variant of the model: ant_id is optional and defaults to 0.
validate_document_optional_ant_id(data) ==
    IF /\ {"BeaconId", "dbm_ant", "timestamp"} \subseteq DOMAIN data
       /\ IsInt(data["BeaconId"])
       /\ "ant_id" \in DOMAIN data => IsInt(data["ant_id"])
       /\ IsNumber(data["dbm_ant"]) \/ IsInt(data["dbm_ant"])
       /\ IsString(data["timestamp"])
    THEN Some([beacon_id |-> data["BeaconId"].int,
               ant_id |-> IF "ant_id" \in DOMAIN data
                          THEN data["ant_id"].int ELSE 0,
               dbm_ant |-> IF IsInt(data["dbm_ant"])
                           THEN data["dbm_ant"].int
                           ELSE data["dbm_ant"].number,
               timestamp |-> data["timestamp"].string])
    ELSE None

\* JSONDocumentModel(**data): BeaconId, ant_id, dbm_ant and timestamp are
\* required; other keys are ignored (the model's Config sets allow_mutation
\* only, so pydantic's default for extra fields applies).  An integer is
\* accepted for dbm_ant.  None stands for ValidationError.
validate_document(data) ==
    IF /\ {"BeaconId", "ant_id", "dbm_ant", "timestamp"} \subseteq DOMAIN data
       /\ IsInt(data["BeaconId"])
       /\ IsInt(data["ant_id"])
       /\ IsNumber(data["dbm_ant"]) \/ IsInt(data["dbm_ant"])
       /\ IsString(data["timestamp"])
    THEN Some([beacon_id |-> data["BeaconId"].int,
               ant_id |-> data["ant_id"].int,
               dbm_ant |-> IF IsInt(data["dbm_ant"])
                           THEN data["dbm_ant"].int
                           ELSE data["dbm_ant"].number,
               timestamp |-> data["timestamp"].string])
    ELSE None

\* HDF5Storage.parse_text_line: the document of the line, or None.
parse_text_line(line) ==
    LET data == json_loads(line)
    IN  IF data = None THEN None ELSE validate_document(data[1])

\* Faulty variant: the text after the last closing brace is not cut off.
parse_line_whole_line(raw) ==
    LET line == strip(raw)
        open_brace_idx == index(line, OpenBrace)
        close_brace_idx == rindex(line, CloseBrace)
        json_document == parse_text_line(line)
    IN  IF line = <<>> THEN [does |-> "empty", document |-> None]
        ELSE IF line = <<CloseBracket>>
             THEN [does |-> "end", document |-> None]
        ELSE IF line = <<OpenBracket>>
             THEN [does |-> "first", document |-> None]
        ELSE IF open_brace_idx = 0 \/ close_brace_idx = 0
                \/ open_brace_idx /= 1
             THEN [does |-> "malformed", document |-> None]
        ELSE IF json_document = None
             THEN [does |-> "invalid", document |-> None]
             ELSE [does |-> "document", document |-> json_document]

\* One iteration of the loop of parse_json_documents_from_file up to the
\* point where the document, if any, is processed: what the iteration does
\* with the line ("empty", "end", "first", "malformed", "invalid" or
\* "document") and the document.
parse_line(raw) ==
    LET line == strip(raw)
        open_brace_idx == index(line, OpenBrace)
        close_brace_idx == rindex(line, CloseBrace)
        json_document == parse_text_line(SubSeq(line, 1, close_brace_idx))
    IN  IF line = <<>> THEN [does |-> "empty", document |-> None]
        ELSE IF line = <<CloseBracket>>
             THEN [does |-> "end", document |-> None]
        ELSE IF line = <<OpenBracket>>
             THEN [does |-> "first", document |-> None]
        ELSE IF open_brace_idx = 0 \/ close_brace_idx = 0
                \/ open_brace_idx /= 1
             THEN [does |-> "malformed", document |-> None]
        ELSE IF json_document = None
             THEN [does |-> "invalid", document |-> None]
             ELSE [does |-> "document", document |-> json_document]

\* ---------------------------------------------------------- input lines
\* The dict of a well-formed document.
DataOf(d) ==
    [BeaconId |-> IntValue(d.beacon_id), ant_id |-> IntValue(d.ant_id),
     dbm_ant |-> NumberValue(d.dbm_ant), timestamp |-> StringValue(d.timestamp)]

\* The same with one more key, with an integer for dbm_ant, without ant_id,
\* with a non-numeric string for BeaconId, with the key beacon_id in the
\* place of BeaconId.
WithExtraField(data) ==
    [f \in DOMAIN data \cup {"rssi"} |->
        IF f = "rssi" THEN IntValue(1) ELSE data[f]]

WithIntegerDbm(data) ==
    [data EXCEPT !["dbm_ant"] = IntValue(data["dbm_ant"].number)]

WithoutAntId(data) == [f \in DOMAIN data \ {"ant_id"} |-> data[f]]

WithTextBeaconId(data) == [data EXCEPT !["BeaconId"] = StringValue("abc")]

WithFieldName(data) ==
    [f \in (DOMAIN data \ {"BeaconId"}) \cup {"beacon_id"} |->
        IF f = "beacon_id" THEN data["BeaconId"] ELSE data[f]]

Object(data) == <<OpenBrace, Pairs(data), CloseBrace>>

\* The lines of a pretty-printed array: indented, followed by a comma.
Indented(text) == <<Space, Space>> \o text \o <<Comma, Space>>

\* Lines that carry the four fields of a document: every document as a
\* line of a pretty-printed array, and the documents of one beacon and value
\* also bare, followed by other text, with an integer dbm_ant, and with a
\* fifth field.
DocumentLines(expected) ==
    {Indented(Object(DataOf(d))) : d \in JSONDocumentModel(expected)}
    \cup UNION {{Object(DataOf(d)),
                 Object(DataOf(d)) \o <<Space, Junk, Comma>>,
                 Object(WithIntegerDbm(DataOf(d))) \o <<Comma>>,
                 Indented(Object(WithExtraField(DataOf(d))))}
                : d \in {e \in JSONDocumentModel(expected) :
                            /\ e.beacon_id = 101
                            /\ e.dbm_ant = -58}}

\* Lines that do not: blank lines, the brackets, text without an object
\* at its start or without a closing brace, objects that do not decode
\* and objects that lack a field or have a field of a wrong type.
OtherLines(expected) ==
    LET data == DataOf(CHOOSE d \in JSONDocumentModel(expected) : TRUE)
    IN  {<<Space>>, <<Space, Space>>,
         <<OpenBracket>>, <<OpenBracket, Space>>,
         <<CloseBracket>>, <<Space, CloseBracket, Space>>,
         <<CloseBracket, Comma>>,
         <<Junk, Junk>>,
         <<Junk>> \o Object(data),
         <<CloseBrace, OpenBrace>>,
         <<OpenBrace, Pairs(data)>>,
         <<OpenBrace, Junk, CloseBrace>>,
         Object(data) \o <<Junk, CloseBrace>>,
         <<OpenBrace, CloseBrace>>,
         Indented(Object(WithoutAntId(data))),
         Indented(Object(WithTextBeaconId(data))),
         Indented(Object(WithFieldName(data)))}

InputLines(expected) == DocumentLines(expected) \cup OtherLines(expected)

\* The input lines on which an iteration of the loop does a given thing,
\* tabulated per number of expected antenna ids.
LinesTable ==
    [n \in 1..MaxAnt |->
        [does \in {"empty", "end", "first", "malformed", "invalid",
                   "document"} |->
            {raw \in InputLines(SubSeq(ANTENNA_IDS, 1, n)) :
                parse_line(raw).does = does}]]

\* raw \in LinesThat(does) stands for parse_line(raw).does = does.
LinesThat(does) == LinesTable[Len(expected_antenna_ids)][does]

\* ------------------------------------------------------------------ the run
Init ==
    /\ expected_antenna_ids \in ExpectedConfigs
    /\ pc = "enter"
    /\ exc = "none"
    /\ hdf5_storage = "unbound"
    /\ line_index = 1
    /\ tmp_file = "none"
    /\ hdf5_root_file = "none"
    /\ hdf5_beacons_group = EmptyFunction
    /\ json_results_file = "none"
    /\ file_content = <<>>
    /\ results_records_count = 0
    /\ received = {}
    /\ received_count = [k \in BeaconKeys |-> 0]
    /\ last_document = None
    /\ emit_log = <<>>
    /\ input_so_far = "nothing"
    /\ teardown = {}

Sink == [content |-> file_content, count |-> results_records_count]

\* A log entry: the record, the path that emitted it, and how many documents
\* of its key had been processed when it was emitted.
LogEntries(records, path, counts) ==
    [i \in 1..Len(records) |->
        [beacon |-> records[i].beacon, vector |-> records[i].vector,
         path |-> path, nth |-> counts[records[i].beacon]]]

\* The statements of the try block of HDF5Storage.__enter__ that touch the
\* environment, in order; the last two are OutputProcessor.initialize.
SetupSteps == <<"TemporaryFile", "h5py.File", "create_group", "open", "write">>

StepRank(step) == CHOOSE i \in DOMAIN SetupSteps : SetupSteps[i] = step

SetupFaults == {"none"} \cup Range(SetupSteps)

\* HDF5Storage.__enter__ and the binding made by the with statement.  The
\* temporary file, the HDF5 file on it and its "beacons" group are created
\* and the Output Sink is initialized, writing the "[" line; the method
\* returns self.  When a step raises, the steps before it have taken effect,
\* the exception is logged, and the method returns None.
Enter(fault) ==
    /\ pc = "enter"
    /\ LET done(step) == fault = "none" \/ StepRank(step) < StepRank(fault)
       IN  /\ tmp_file' = IF done("TemporaryFile") THEN "open" ELSE "none"
           /\ hdf5_root_file' = IF done("h5py.File") THEN "open" ELSE "none"
           /\ json_results_file' = IF done("open") THEN "open" ELSE "none"
           /\ file_content' = IF done("write") THEN <<OpenMarker>> ELSE <<>>
    /\ hdf5_beacons_group' = EmptyFunction
    /\ hdf5_storage' = IF fault = "none" THEN "self" ELSE "None"
    /\ pc' = "parse"
    /\ UNCHANGED <<expected_antenna_ids, exc, line_index,
                   results_records_count, history, input_so_far, teardown>>

\* main, first statement of the with block when __enter__ returned None:
\* hdf5_storage.parse_json_documents_from_file() raises AttributeError.
CallOnNone ==
    /\ pc = "parse"
    /\ hdf5_storage = "None"
    /\ exc' = "AttributeError"
    /\ pc' = "exit"
    /\ UNCHANGED <<expected_antenna_ids, hdf5_storage, line_index, tmp_file,
                   hdf5_root_file, hdf5_beacons_group, json_results_file,
                   file_content, results_records_count, history,
                   input_so_far, teardown>>

\* The loop of parse_json_documents_from_file is about to read a line.
AtLine ==
    /\ pc = "parse"
    /\ hdf5_storage = "self"
    /\ line_index <= MaxLines

\* parse_json_documents_from_file, one iteration each.
\* An empty line is ignored.
ReadEmptyLine(raw) ==
    /\ AtLine
    /\ raw \in LinesThat("empty")
    /\ line_index' = line_index + 1
    /\ input_so_far' = "other"
    /\ UNCHANGED <<expected_antenna_ids, pc, exc, hdf5_storage, tmp_file,
                   hdf5_root_file, hdf5_beacons_group, json_results_file,
                   file_content, results_records_count, history, teardown>>

\* The "[" line is consumed.
ReadOpenBracket(raw) ==
    /\ AtLine
    /\ raw \in LinesThat("first")
    /\ line_index' = line_index + 1
    /\ input_so_far' = IF input_so_far = "nothing" THEN "[" ELSE "other"
    /\ UNCHANGED <<expected_antenna_ids, pc, exc, hdf5_storage, tmp_file,
                   hdf5_root_file, hdf5_beacons_group, json_results_file,
                   file_content, results_records_count, history, teardown>>

\* A line without "{" at its start or without "}" is malformed.
ReadMalformedLine(raw) ==
    /\ AtLine
    /\ raw \in LinesThat("malformed")
    /\ line_index' = line_index + 1
    /\ input_so_far' = "other"
    /\ UNCHANGED <<expected_antenna_ids, pc, exc, hdf5_storage, tmp_file,
                   hdf5_root_file, hdf5_beacons_group, json_results_file,
                   file_content, results_records_count, history, teardown>>

\* A line for which parse_text_line returns None.
ReadInvalidLine(raw) ==
    /\ AtLine
    /\ raw \in LinesThat("invalid")
    /\ line_index' = line_index + 1
    /\ input_so_far' = "other"
    /\ UNCHANGED <<expected_antenna_ids, pc, exc, hdf5_storage, tmp_file,
                   hdf5_root_file, hdf5_beacons_group, json_results_file,
                   file_content, results_records_count, history, teardown>>

\* Faulty variant: the "]" line is consumed like the "[" line and the loop
\* goes on.
ReadCloseBracket_continue(raw) ==
    /\ AtLine
    /\ raw \in LinesThat("end")
    /\ line_index' = line_index + 1
    /\ input_so_far' = "other"
    /\ UNCHANGED <<expected_antenna_ids, pc, exc, hdf5_storage, tmp_file,
                   hdf5_root_file, hdf5_beacons_group, json_results_file,
                   file_content, results_records_count, history, teardown>>

\* The "]" line breaks the loop; main goes on to the residual flush.
ReadCloseBracket(raw) ==
    /\ AtLine
    /\ raw \in LinesThat("end")
    /\ pc' = "flush"
    /\ input_so_far' = IF input_so_far = "[" THEN "[ ]" ELSE "... ]"
    /\ UNCHANGED <<expected_antenna_ids, exc, hdf5_storage, line_index,
                   tmp_file, hdf5_root_file, hdf5_beacons_group,
                   json_results_file, file_content, results_records_count,
                   history, teardown>>

\* The file has no further line.
EndOfFile ==
    /\ pc = "parse"
    /\ hdf5_storage = "self"
    /\ pc' = "flush"
    /\ UNCHANGED <<expected_antenna_ids, exc, hdf5_storage, line_index,
                   tmp_file, hdf5_root_file, hdf5_beacons_group,
                   json_results_file, file_content, results_records_count,
                   history, input_so_far, teardown>>

\* The exception that a failing write raises.
ErrorOf(fault) ==
    IF fault = "storage" THEN "storage_failure" ELSE "output_failure"

\* The rest of an iteration whose line carries the document json_record,
\* given the outcome of _process_json_record: line_index is advanced before
\* the call, and an exception leaves the loop and the with block.
HandleDocument(json_record, outcome, error) ==
    LET key == beacon_key(json_record)
    IN  /\ line_index' = line_index + 1
        /\ hdf5_beacons_group' = outcome.beacons
        /\ file_content' = outcome.sink.content
        /\ results_records_count' = outcome.sink.count
        /\ exc' = IF outcome.raised THEN error ELSE exc
        /\ pc' = IF outcome.raised THEN "exit" ELSE pc
        /\ received' = received \cup
               {<<key, json_record.ant_id, json_record.dbm_ant>>}
        /\ received_count' =
               [received_count EXCEPT ![key] = received_count[key] + 1]
        /\ last_document' = Some(json_record)
        /\ emit_log' = emit_log \o LogEntries(outcome.emitted, "completion",
                                              received_count')
        /\ input_so_far' = "other"
        /\ UNCHANGED <<expected_antenna_ids, hdf5_storage, tmp_file,
                       hdf5_root_file, json_results_file, teardown>>

\* A line carrying a valid document: the document is processed.
ReadDocument(json_record) ==
    /\ AtLine
    /\ HandleDocument(json_record,
                      process_json_record(hdf5_beacons_group, Sink,
                                          json_record),
                      "raised")

\* A line carrying a valid document, when a write of its processing fails.
ReadDocumentRaising(json_record, fault) ==
    /\ AtLine
    /\ can_raise(hdf5_beacons_group, Sink, json_record, fault)
    /\ HandleDocument(json_record,
                      process_json_record_raising(hdf5_beacons_group, Sink,
                                                  json_record, fault),
                      ErrorOf(fault))

\* A line from which parse_text_line makes a document.
ReadDocumentLine(raw) ==
    /\ AtLine
    /\ raw \in LinesThat("document")
    /\ ReadDocument(parse_line(raw).document[1])

\* Such a line, when a write of the document's processing fails.
ReadDocumentLineRaising(raw, fault) ==
    /\ AtLine
    /\ raw \in LinesThat("document")
    /\ ReadDocumentRaising(parse_line(raw).document[1], fault)

\* One iteration of the loop on the line raw.
ReadLine(raw) ==
    \/ ReadEmptyLine(raw)
    \/ ReadOpenBracket(raw)
    \/ ReadMalformedLine(raw)
    \/ ReadInvalidLine(raw)
    \/ ReadCloseBracket(raw)
    \/ ReadDocumentLine(raw)

\* The rest of main after persist_beacons_vectors_to_results_file returned
\* or raised with the given outcome.
\* Faulty variant: the parse goes on after the residual flush.
HandleFlush_resuming(outcome) ==
    /\ hdf5_beacons_group' = outcome.beacons
    /\ file_content' = outcome.sink.content
    /\ results_records_count' = outcome.sink.count
    /\ emit_log' = emit_log \o LogEntries(outcome.emitted, "residual",
                                          received_count)
    /\ exc' = IF outcome.raised THEN "output_failure" ELSE exc
    /\ pc' = "parse"
    /\ UNCHANGED <<expected_antenna_ids, hdf5_storage, line_index, tmp_file,
                   hdf5_root_file, json_results_file, received,
                   received_count, last_document, input_so_far, teardown>>

HandleFlush(outcome) ==
    /\ hdf5_beacons_group' = outcome.beacons
    /\ file_content' = outcome.sink.content
    /\ results_records_count' = outcome.sink.count
    /\ emit_log' = emit_log \o LogEntries(outcome.emitted, "residual",
                                          received_count)
    /\ exc' = IF outcome.raised THEN "output_failure" ELSE exc
    /\ pc' = "exit"
    /\ UNCHANGED <<expected_antenna_ids, hdf5_storage, line_index, tmp_file,
                   hdf5_root_file, json_results_file, received,
                   received_count, last_document, input_so_far, teardown>>

\* main, after the parse: persist_beacons_vectors_to_results_file.
ResidualFlush ==
    /\ pc = "flush"
    /\ HandleFlush(persist_beacons_vectors_to_results_file(
                       hdf5_beacons_group, Sink))

\* The residual flush when the sink raises at the nth group.
ResidualFlushRaising(nth, fault) ==
    /\ pc = "flush"
    /\ flush_can_raise(hdf5_beacons_group, Sink, nth, fault)
    /\ HandleFlush(persist_beacons_vectors_raising(hdf5_beacons_group, Sink,
                                                   nth, fault))

\* First try block of HDF5Storage.__exit__: self._hdf5_root_file.close()
\* and then self._tmp_file.close().  Without an HDF5 file the attribute
\* lookup on None raises; an exception ends the block and is logged.
release_store(hdf5_fault, tmp_fault) ==
    IF hdf5_root_file = "none"
    THEN [hdf5_root_file |-> hdf5_root_file, tmp_file |-> tmp_file,
          events |-> {"store_error"}]
    ELSE IF hdf5_fault
    THEN [hdf5_root_file |-> hdf5_root_file, tmp_file |-> tmp_file,
          events |-> {"hdf5_root_file.close", "store_error"}]
    ELSE IF tmp_fault
    THEN [hdf5_root_file |-> "closed", tmp_file |-> tmp_file,
          events |-> {"hdf5_root_file.close", "tmp_file.close",
                      "store_error"}]
    ELSE [hdf5_root_file |-> "closed", tmp_file |-> "closed",
          events |-> {"hdf5_root_file.close", "tmp_file.close"}]

\* Faulty variant of OutputProcessor.close: the file is closed without the
\* "]" line.
close_without_marker(content) == content

\* OutputProcessor.close: the "]" line is written when the file was opened.
close(content) ==
    IF json_results_file /= "none" THEN Append(content, CloseMarker)
    ELSE content

\* The ways OutputProcessor.close can raise: in the write of the "]" line
\* or in the close of the file.
CloseFaults == {"write", "close"}

\* Second try block of HDF5Storage.__exit__: self._output_processor.close();
\* an exception is logged.
close_sink(fault) ==
    IF fault = "write"
    THEN [json_results_file |-> json_results_file,
          file_content |-> file_content,
          events |-> {"output_processor.close", "sink_error"}]
    ELSE IF fault = "close"
    THEN [json_results_file |-> json_results_file,
          file_content |-> close(file_content),
          events |-> {"output_processor.close", "sink_error"}]
    ELSE [json_results_file |->
              IF json_results_file /= "none" THEN "closed" ELSE "none",
          file_content |-> close(file_content),
          events |-> {"output_processor.close"}]

\* The calls of __exit__ that raise: none, or those that the environment
\* can make raise in this state.
NoFault == [hdf5 |-> FALSE, tmp |-> FALSE, sink |-> "none"]

ExitFaults ==
    {f \in [hdf5 : BOOLEAN, tmp : BOOLEAN, sink : {"none"} \cup CloseFaults] :
        /\ f /= NoFault
        /\ f.hdf5 => hdf5_root_file /= "none"
        /\ f.tmp => hdf5_root_file /= "none" /\ ~f.hdf5
        /\ f.sink /= "none" => json_results_file /= "none"}

\* Faulty variant: __exit__ returns True, which suppresses the exception.
ExitWith_suppressing(store, sink) ==
    /\ hdf5_root_file' = store.hdf5_root_file
    /\ tmp_file' = store.tmp_file
    /\ json_results_file' = sink.json_results_file
    /\ file_content' = sink.file_content
    /\ teardown' = store.events \cup sink.events
    /\ pc' = "done"
    /\ UNCHANGED <<expected_antenna_ids, exc, hdf5_storage, line_index,
                   hdf5_beacons_group, results_records_count, history,
                   input_so_far>>

\* The state that __exit__ leaves, given what its two try blocks did;
\* returning False lets an exception in flight reach the caller.
ExitWith(store, sink) ==
    /\ hdf5_root_file' = store.hdf5_root_file
    /\ tmp_file' = store.tmp_file
    /\ json_results_file' = sink.json_results_file
    /\ file_content' = sink.file_content
    /\ teardown' = store.events \cup sink.events
    /\ pc' = IF exc = "none" THEN "done" ELSE "failed"
    /\ UNCHANGED <<expected_antenna_ids, exc, hdf5_storage, line_index,
                   hdf5_beacons_group, results_records_count, history,
                   input_so_far>>

\* Faulty variant of __exit__ with one try block around both releases: an
\* error of the first release skips the close of the sink.
Exit_single_try(f) ==
    /\ pc = "exit"
    /\ LET store == release_store(f.hdf5, f.tmp)
       IN  ExitWith(store,
                    IF "store_error" \in store.events
                    THEN [json_results_file |-> json_results_file,
                          file_content |-> file_content, events |-> {}]
                    ELSE close_sink(f.sink))

\* HDF5Storage.__exit__: the store is released and the sink is closed, each
\* in a try block of its own.
Exit(f) ==
    /\ pc = "exit"
    /\ ExitWith(release_store(f.hdf5, f.tmp), close_sink(f.sink))

\* The guarded run of main in an environment whose calls succeed.
Next ==
    \/ Enter("none")
    \/ \E raw \in LinesThat("empty") : ReadEmptyLine(raw)
    \/ \E raw \in LinesThat("first") : ReadOpenBracket(raw)
    \/ \E raw \in LinesThat("malformed") : ReadMalformedLine(raw)
    \/ \E raw \in LinesThat("invalid") : ReadInvalidLine(raw)
    \/ \E raw \in LinesThat("end") : ReadCloseBracket(raw)
    \/ \E raw \in LinesThat("document") : ReadDocumentLine(raw)
    \/ EndOfFile
    \/ ResidualFlush
    \/ Exit(NoFault)

Spec == Init /\ [][Next]_vars

\* The guarded run of main in an environment whose calls can raise, on
\* inputs of at most MaxFaultLines lines.
ShortInput == line_index <= MaxFaultLines

NextFault ==
    \/ \E fault \in SetupFaults : Enter(fault)
    \/ CallOnNone
    \/ ShortInput /\ \E raw \in LinesThat("empty") : ReadEmptyLine(raw)
    \/ ShortInput /\ \E raw \in LinesThat("first") : ReadOpenBracket(raw)
    \/ ShortInput /\ \E raw \in LinesThat("malformed") :
                         ReadMalformedLine(raw)
    \/ ShortInput /\ \E raw \in LinesThat("invalid") : ReadInvalidLine(raw)
    \/ ShortInput /\ \E raw \in LinesThat("end") : ReadCloseBracket(raw)
    \/ ShortInput /\ \E raw \in LinesThat("document") :
                         ReadDocumentLine(raw)
    \/ ShortInput /\ \E raw \in LinesThat("document"),
                            fault \in WriteFaults :
                         ReadDocumentLineRaising(raw, fault)
    \/ EndOfFile
    \/ ResidualFlush
    \/ \E nth \in 1..Cardinality(BeaconKeys), fault \in SinkFaults :
           ResidualFlushRaising(nth, fault)
    \/ Exit(NoFault)
    \/ \E f \in ExitFaults : Exit(f)

FaultSpec == Init /\ [][NextFault]_vars

TypeOK ==
    /\ expected_antenna_ids \in ExpectedConfigs
    /\ pc \in {"enter", "parse", "flush", "exit", "done", "failed"}
    /\ exc \in {"none", "raised", "storage_failure", "output_failure",
                "AttributeError"}
    /\ hdf5_storage \in {"unbound", "self", "None"}
    /\ line_index \in 1..(MaxLines + 1)
    /\ tmp_file \in {"none", "open", "closed"}
    /\ hdf5_root_file \in {"none", "open", "closed"}
    /\ json_results_file \in {"none", "open", "closed"}
    /\ results_records_count \in Nat
    /\ input_so_far \in {"nothing", "[", "[ ]", "other", "... ]"}
    /\ teardown \subseteq {"hdf5_root_file.close", "tmp_file.close",
                           "output_processor.close", "store_error",
                           "sink_error"}

\* ------------------------------------------------------------- properties
IsRecordToken(t) == t.token = "record"

\* The records in the results file, in the order they were written.
Records == SelectSeq(file_content, IsRecordToken)

RecordsOf(key) == {i \in DOMAIN Records : Records[i].beacon = key}

LogOf(key) == {i \in DOMAIN emit_log : emit_log[i].beacon = key}

\* The keys carried by at least one processed document.
KeysReceived == {k \in BeaconKeys : received_count[k] > 0}

\* The antenna ids received for a key.
AntennasOf(key) == {t[2] : t \in {x \in received : x[1] = key}}

ExpectedSet == Range(expected_antenna_ids)

ExpectedSize == Len(expected_antenna_ids)

\* The run ended normally: parse, residual flush and teardown, no exception.
CompletedNormally == pc = "done"

\* C1: at the end of a normally completed run the number of records handed
\* to the Output Sink equals the number of distinct group keys among the
\* processed readings, and no key appears in more than one record.
C1_OneRecordPerKey ==
    CompletedNormally =>
        /\ results_records_count = Cardinality(KeysReceived)
        /\ Len(Records) = Cardinality(KeysReceived)
        /\ \A i, j \in DOMAIN Records :
               i /= j => Records[i].beacon /= Records[j].beacon

C3_VectorShape ==
    \A i \in DOMAIN Records :
        /\ DOMAIN Records[i].vector = 1..ExpectedSize
        /\ \A s \in 1..ExpectedSize :
               \/ Records[i].vector[s] = DEFAULT_DBM_ANT_VALUE
               \/ <<Records[i].beacon, expected_antenna_ids[s],
                    Records[i].vector[s]>> \in received

\* C3 witness: records of both paths have been written, one of them with a
\* default slot next to a received value, while another key's readings and
\* an out-of-set antenna were received.
C3_Witness ==
    /\ \E i, j \in DOMAIN emit_log :
           /\ emit_log[i].path = "completion"
           /\ emit_log[j].path = "residual"
    /\ \E i \in DOMAIN Records : \E s, t \in 1..ExpectedSize :
           /\ Records[i].vector[s] = DEFAULT_DBM_ANT_VALUE
           /\ Records[i].vector[t] /= DEFAULT_DBM_ANT_VALUE
    /\ \E x \in received : x[2] \notin ExpectedSet

\* The key received exactly one reading for every expected antenna id and
\* no other reading.
OnePerExpectedId(key) ==
    /\ received_count[key] = ExpectedSize
    /\ AntennasOf(key) = ExpectedSet

\* The key received readings for a strict subset of the expected antenna
\* ids only, one reading each.
StrictSubsetOnly(key) ==
    /\ received_count[key] > 0
    /\ received_count[key] = Cardinality(AntennasOf(key))
    /\ AntennasOf(key) \subseteq ExpectedSet
    /\ AntennasOf(key) /= ExpectedSet

\* C4: at the end of a run, a key that received exactly one reading per
\* expected antenna id has a record, and every slot of its record holds the
\* value of the key's reading for the slot's antenna, never the default.
C4_CompleteVector ==
    CompletedNormally =>
        \A k \in BeaconKeys :
            OnePerExpectedId(k) =>
                /\ RecordsOf(k) /= {}
                /\ \A i \in RecordsOf(k) : \A s \in 1..ExpectedSize :
                       /\ Records[i].vector[s] /= DEFAULT_DBM_ANT_VALUE
                       /\ <<k, expected_antenna_ids[s],
                            Records[i].vector[s]>> \in received

\* C4 witness: a finished run in which such a key got its readings in
\* descending antenna order (the last one for the first expected id) with
\* readings of another key in the same input.
C4_Witness ==
    /\ CompletedNormally
    /\ ExpectedSize >= 2
    /\ \E k \in BeaconKeys :
           /\ OnePerExpectedId(k)
           /\ RecordsOf(k) /= {}
           /\ last_document /= None
           /\ beacon_key(last_document[1]) = k
           /\ last_document[1].ant_id = expected_antenna_ids[1]
           /\ \E other \in BeaconKeys \ {k} : received_count[other] > 0

C6_EarlyEmission ==
    ExpectedSize >= 2 =>
        \A k \in BeaconKeys :
            /\ (pc \in {"parse", "flush"} /\ received_count[k] < ExpectedSize)
                   => LogOf(k) = {} /\ RecordsOf(k) = {}
            /\ OnePerExpectedId(k) =>
                   /\ Cardinality(LogOf(k)) = 1
                   /\ Cardinality(RecordsOf(k)) = 1
                   /\ \A i \in LogOf(k) :
                          /\ emit_log[i].path = "completion"
                          /\ emit_log[i].nth = ExpectedSize

\* C6 witness: a finished run whose first record is the completion of such
\* a key and whose second record comes from the residual flush.
C6_Witness ==
    /\ CompletedNormally
    /\ ExpectedSize >= 2
    /\ Len(emit_log) = 2
    /\ OnePerExpectedId(emit_log[1].beacon)
    /\ emit_log[1].path = "completion"
    /\ emit_log[2].path = "residual"

\* A step that processes a document of key k whose group exists.
ProcessesExisting(k) ==
    /\ pc = "parse"
    /\ received_count'[k] = received_count[k] + 1
    /\ k \in DOMAIN hdf5_beacons_group

\* The document processed by the step.
Processed == last_document'[1]

\* C7: a reading whose key has a group with count c completes the group
\* (record written, group removed, nothing stored) exactly when c + 1 is
\* the number of expected ids; in every other case the reading is upserted
\* (value stored under its antenna id, count c + 1) and nothing is written.
C7_CountDecidesCompletion ==
    [][\A k \in BeaconKeys :
          ProcessesExisting(k) =>
              LET c == hdf5_beacons_group[k].sampled_antennas_count
              IN  IF c + 1 = ExpectedSize
                  THEN /\ k \notin DOMAIN hdf5_beacons_group'
                       /\ Len(Records') = Len(Records) + 1
                       /\ Records'[Len(Records')].beacon = k
                  ELSE /\ Records' = Records
                       /\ k \in DOMAIN hdf5_beacons_group'
                       /\ hdf5_beacons_group'[k].sampled_antennas_count = c + 1
                       /\ Processed.ant_id \in
                              DOMAIN hdf5_beacons_group'[k].datasets
                       /\ hdf5_beacons_group'[k].datasets[Processed.ant_id]
                              = Processed.dbm_ant]_vars

\* A step that writes a record on the completion path for key k.
CompletesGroup(k) ==
    /\ ProcessesExisting(k)
    /\ Len(Records') = Len(Records) + 1

\* In a residual-flush step, where no reading accompanies the group, each
\* slot of each record written is the stored value or the default.
FlushedWithoutDocument ==
    pc = "flush" =>
        \A i \in (Len(Records) + 1)..Len(Records') :
            LET stored == hdf5_beacons_group[Records'[i].beacon].datasets
            IN  \A s \in 1..ExpectedSize :
                    Records'[i].vector[s] =
                        IF expected_antenna_ids[s] \in DOMAIN stored
                        THEN stored[expected_antenna_ids[s]]
                        ELSE DEFAULT_DBM_ANT_VALUE

\* C8 as stated: in the record of a completing reading, the slot of an
\* expected id is the reading's value when the reading's antenna id is that
\* id, otherwise the stored value if there is one, otherwise the default.
C8_DocumentFirst ==
    [][/\ (\A k \in BeaconKeys :
          CompletesGroup(k) =>
              LET stored == hdf5_beacons_group[k].datasets
                  vector == Records'[Len(Records')].vector
              IN  \A s \in 1..ExpectedSize :
                      vector[s] =
                          IF expected_antenna_ids[s] = Processed.ant_id
                          THEN Processed.dbm_ant
                          ELSE IF expected_antenna_ids[s] \in DOMAIN stored
                               THEN stored[expected_antenna_ids[s]]
                               ELSE DEFAULT_DBM_ANT_VALUE)
       /\ FlushedWithoutDocument]_vars

\* C8 amended: the slot of an expected id is the stored value if there is
\* one, otherwise the completing reading's value when its antenna id is
\* that id, otherwise the default; a completing reading for an antenna
\* that already has a stored value leaves the stored value in the slot.
C8_StoredFirst ==
    [][/\ (\A k \in BeaconKeys :
          CompletesGroup(k) =>
              LET stored == hdf5_beacons_group[k].datasets
                  vector == Records'[Len(Records')].vector
              IN  \A s \in 1..ExpectedSize :
                      vector[s] =
                          IF expected_antenna_ids[s] \in DOMAIN stored
                          THEN stored[expected_antenna_ids[s]]
                          ELSE IF expected_antenna_ids[s] = Processed.ant_id
                               THEN Processed.dbm_ant
                               ELSE DEFAULT_DBM_ANT_VALUE)
       /\ FlushedWithoutDocument]_vars

\* C8 witness: the latest document completed its group, its antenna is an
\* expected one, and the slot of that antenna in the record just written
\* holds a received value other than the document's.
C8_Witness ==
    /\ pc = "parse"
    /\ last_document /= None
    /\ emit_log /= <<>>
    /\ LET doc == last_document[1]
           entry == emit_log[Len(emit_log)]
       IN  /\ entry.beacon = beacon_key(doc)
           /\ entry.path = "completion"
           /\ entry.nth = received_count[entry.beacon]
           /\ \E s \in 1..ExpectedSize :
                  /\ expected_antenna_ids[s] = doc.ant_id
                  /\ entry.vector[s] /= doc.dbm_ant
                  /\ entry.vector[s] /= DEFAULT_DBM_ANT_VALUE

\* C9: a non-completing reading for a key and antenna id that already has
\* a stored value overwrites the stored value, increments the count by one,
\* and the run goes on with the next line.
C9_UpsertOverwrites ==
    [][\A k \in BeaconKeys :
          (/\ ProcessesExisting(k)
           /\ ~IsLastExpectedSample(hdf5_beacons_group[k])
           /\ Processed.ant_id \in DOMAIN hdf5_beacons_group[k].datasets)
          => /\ k \in DOMAIN hdf5_beacons_group'
             /\ hdf5_beacons_group'[k].datasets[Processed.ant_id]
                    = Processed.dbm_ant
             /\ hdf5_beacons_group'[k].sampled_antennas_count
                    = hdf5_beacons_group[k].sampled_antennas_count + 1
             /\ exc' = "none"
             /\ pc' = "parse"]_vars

\* C10: once the residual flush has run, the store holds no group.
C10_FlushEmptiesStore ==
    (pc \in {"exit", "done"} /\ exc = "none")
        => DOMAIN hdf5_beacons_group = {}

\* ------------------------------------------------- properties of the parser
\* What a line is, read off the line itself.
Blank(raw) == \A i \in DOMAIN raw : raw[i] = Space

\* After trimming, the line is the one character c.
TrimmedIs(raw, c) ==
    \E i \in DOMAIN raw :
        raw[i] = c /\ \A j \in DOMAIN raw \ {i} : raw[j] = Space

FirstCharacter(raw) ==
    CHOOSE i \in DOMAIN raw :
        raw[i] /= Space /\ \A j \in 1..(i - 1) : raw[j] = Space

HasClosingBrace(raw) == \E i \in DOMAIN raw : raw[i] = CloseBrace

LastClosingBrace(raw) ==
    CHOOSE i \in DOMAIN raw :
        raw[i] = CloseBrace /\ \A j \in (i + 1)..Len(raw) : raw[j] /= CloseBrace

\* The line starts with an opening brace and has a closing brace.
ObjectLine(raw) ==
    /\ ~Blank(raw)
    /\ raw[FirstCharacter(raw)] = OpenBrace
    /\ HasClosingBrace(raw)

\* What stands between the first opening and the last closing brace.
Between(raw) ==
    SubSeq(raw, FirstCharacter(raw) + 1, LastClosingBrace(raw) - 1)

\* The text from the opening to the last closing brace is a JSON object.
Deserializes(raw) ==
    \/ Between(raw) = <<>>
    \/ Len(Between(raw)) = 1 /\ Between(raw)[1].ch = "pairs"

FieldsOf(raw) ==
    IF Between(raw) = <<>> THEN EmptyFunction ELSE Between(raw)[1].data

RequiredFields == {"BeaconId", "ant_id", "dbm_ant", "timestamp"}

\* The lines that C11 lists: blank, the opening bracket, not starting with
\* an opening brace or lacking a closing brace (and not the closing
\* bracket), not deserializing, or missing a required field.
ListedAsSkipped(raw) ==
    \/ Blank(raw)
    \/ TrimmedIs(raw, OpenBracket)
    \/ ~Blank(raw) /\ ~TrimmedIs(raw, CloseBracket) /\ ~ObjectLine(raw)
    \/ ObjectLine(raw) /\ ~Deserializes(raw)
    \/ /\ ObjectLine(raw)
       /\ Deserializes(raw)
       /\ ~(RequiredFields \subseteq DOMAIN FieldsOf(raw))

SkippedLines ==
    [n \in 1..MaxAnt |->
        {raw \in InputLines(SubSeq(ANTENNA_IDS, 1, n)) : ListedAsSkipped(raw)}]

\* The step leaves the Scratch Store, the content of the Output Sink and
\* the emitted-record count as they are, raises nothing, and the loop goes
\* on with the next line.
NoOp ==
    /\ hdf5_beacons_group' = hdf5_beacons_group
    /\ file_content' = file_content
    /\ results_records_count' = results_records_count
    /\ exc' = "none"
    /\ pc' = "parse"
    /\ line_index' = line_index + 1

\* C11: an iteration of the loop on a blank line, an opening-bracket line,
\* a line that does not start with an opening brace or lacks a closing
\* brace, a line that does not deserialize, or a line missing a required
\* field changes neither the store nor the sink nor the count, raises
\* nothing, and leaves the loop at the next line.
C11_SkippedLinesAreNoOps ==
    [][NoOp \/ \A raw \in SkippedLines[ExpectedSize] : ~ReadLine(raw)]_vars

\* C11 witness: MaxLines lines were read, two of them documents of one key
\* and the others skipped, and the store holds the two values.
C11_Witness ==
    /\ pc = "parse"
    /\ line_index = MaxLines + 1
    /\ \E k \in BeaconKeys :
           /\ received_count[k] = 2
           /\ \A other \in BeaconKeys \ {k} : received_count[other] = 0
           /\ k \in DOMAIN hdf5_beacons_group
           /\ hdf5_beacons_group[k].sampled_antennas_count = 2

\* The object of the line has the four required fields with values of the
\* required types, and at least one more field.
HasExtraField(raw) ==
    /\ ObjectLine(raw)
    /\ Deserializes(raw)
    /\ RequiredFields \subseteq DOMAIN FieldsOf(raw)
    /\ DOMAIN FieldsOf(raw) /= RequiredFields
    /\ IsInt(FieldsOf(raw)["BeaconId"])
    /\ IsInt(FieldsOf(raw)["ant_id"])
    /\ IsNumber(FieldsOf(raw)["dbm_ant"]) \/ IsInt(FieldsOf(raw)["dbm_ant"])
    /\ IsString(FieldsOf(raw)["timestamp"])

ExtraFieldLines ==
    [n \in 1..MaxAnt |->
        {raw \in InputLines(SubSeq(ANTENNA_IDS, 1, n)) : HasExtraField(raw)}]

\* C12: an iteration of the loop on a line whose object has the four
\* required fields with valid types and an additional field produces no
\* reading and changes neither the Scratch Store nor the output.
C12_ExtraFieldsRejected ==
    [][\/ /\ hdf5_beacons_group' = hdf5_beacons_group
          /\ file_content' = file_content
          /\ results_records_count' = results_records_count
          /\ received' = received
          /\ last_document' = last_document
       \/ \A raw \in ExtraFieldLines[ExpectedSize] : ~ReadLine(raw)]_vars

\* The lines that, after trimming, are the closing bracket.
SentinelLines ==
    [n \in 1..MaxAnt |->
        {raw \in InputLines(SubSeq(ANTENNA_IDS, 1, n)) :
            TrimmedIs(raw, CloseBracket)}]

\* The log entries that the step appends.
NewEntries == SubSeq(emit_log', Len(emit_log) + 1, Len(emit_log'))

\* C13: reading the closing bracket ends the parse with the store as it is;
\* once the parse has ended no line is read and no reading is aggregated;
\* the residual flush writes one record for each group present at that
\* point and no other; after it the store and the records do not change.
C13_TerminalSentinel ==
    [][/\ (\A raw \in SentinelLines[ExpectedSize] :
              ReadLine(raw) =>
                  /\ pc' = "flush"
                  /\ line_index' = line_index
                  /\ hdf5_beacons_group' = hdf5_beacons_group
                  /\ file_content' = file_content
                  /\ UNCHANGED history)
       /\ (pc /= "parse" =>
              /\ line_index' = line_index
              /\ UNCHANGED <<received, received_count, last_document>>)
       /\ (pc = "flush" =>
              /\ Len(NewEntries) = Cardinality(DOMAIN hdf5_beacons_group)
              /\ {NewEntries[i].beacon : i \in DOMAIN NewEntries}
                     = DOMAIN hdf5_beacons_group
              /\ \A i \in DOMAIN NewEntries : NewEntries[i].path = "residual"
              /\ Len(Records') = Len(Records) + Len(NewEntries))
       /\ (pc \in {"exit", "done", "failed"} =>
              /\ hdf5_beacons_group' = hdf5_beacons_group
              /\ Records' = Records
              /\ emit_log' = emit_log)]_vars

\* C13 witness: the closing bracket was read after a document and before
\* the last line the input may have, and the run ended with the one record
\* of the group present then.
C13_Witness ==
    /\ CompletedNormally
    /\ input_so_far = "... ]"
    /\ line_index < MaxLines
    /\ Cardinality(DOMAIN hdf5_beacons_group) = 1
    /\ Len(Records) = 1
    /\ Records[1].beacon \in DOMAIN hdf5_beacons_group

\* ---------------------------------------------------- properties of the sink
\* C14: a run whose input is the opening bracket line followed by the
\* closing bracket line emits no record, keeps the count at 0, writes no
\* separating comma, and leaves the opening marker followed by the closing
\* marker as the output.
C14_EmptyArray ==
    (CompletedNormally /\ input_so_far = "[ ]") =>
        /\ file_content = <<OpenMarker, CloseMarker>>
        /\ results_records_count = 0
        /\ emit_log = <<>>

\* C14 witness: such a run has ended and its file is closed.
C14_Witness ==
    /\ CompletedNormally
    /\ input_so_far = "[ ]"
    /\ line_index = 2
    /\ json_results_file = "closed"

\* The content that frames the records of log, in order: the opening
\* marker, the records with a separating comma between two of them, and the
\* closing marker once the sink is closed.
Framed(log, closed) ==
    LET k == Len(log)
        body == [i \in 1..(IF k = 0 THEN 0 ELSE 2 * k - 1) |->
                    IF i % 2 = 1
                    THEN RecordToken([beacon |-> log[(i + 1) \div 2].beacon,
                                      vector |-> log[(i + 1) \div 2].vector])
                    ELSE Separator]
    IN  <<OpenMarker>> \o body \o (IF closed THEN <<CloseMarker>> ELSE <<>>)

NumberOf(token, content) ==
    Cardinality({i \in DOMAIN content : content[i] = token})

\* C15: after initialize and k calls of persist_record the content is the
\* opening marker and the k records in call order with a separating comma
\* before each record but the first, max(k - 1, 0) commas in all, and the
\* count is k; close adds the closing marker and leaves the count at k.
C15_SinkFraming ==
    LET k == Len(emit_log)
    IN  /\ pc \in {"parse", "flush", "exit"} =>
               file_content = Framed(emit_log, FALSE)
        /\ pc \in {"done", "failed"} =>
               file_content = Framed(emit_log, TRUE)
        /\ pc /= "enter" =>
               /\ results_records_count = k
               /\ NumberOf(Separator, file_content)
                      = IF k = 0 THEN 0 ELSE k - 1
               /\ \A i \in DOMAIN file_content :
                      file_content[i] = Separator =>
                          /\ 1 < i /\ i < Len(file_content)
                          /\ IsRecordToken(file_content[i - 1])
                          /\ IsRecordToken(file_content[i + 1])

\* C15 witness: a closed sink that took three records, from both paths.
C15_Witness ==
    /\ CompletedNormally
    /\ json_results_file = "closed"
    /\ Len(emit_log) = 3
    /\ emit_log[1].path = "completion"
    /\ emit_log[3].path = "residual"

\* ------------------------------------------- properties of setup and teardown
\* The guarded run is over, normally or with an exception for the caller.
Ended == pc \in {"done", "failed"}

\* C16: however the guarded run ends, the teardown calls the close of the
\* Output Sink, also when the release of the Scratch Store raised; an open
\* sink whose close does not raise ends closed, after the closing marker.
C16_TeardownClosesSink ==
    Ended =>
        /\ "output_processor.close" \in teardown
        /\ (json_results_file /= "none" /\ "sink_error" \notin teardown) =>
               /\ json_results_file = "closed"
               /\ file_content /= <<>>
               /\ file_content[Len(file_content)] = CloseMarker

\* C16 witness: a write to the store failed while a reading was processed,
\* the close of the HDF5 file raised in the teardown, and the sink is
\* closed.
C16_Witness ==
    /\ pc = "failed"
    /\ exc = "storage_failure"
    /\ {"hdf5_root_file.close", "store_error"} \subseteq teardown
    /\ "tmp_file.close" \notin teardown
    /\ json_results_file = "closed"

\* C17: however the guarded run ends, the teardown has called the close of
\* every store resource that the setup acquired: of the temporary file when
\* it was created, also when the setup failed after creating it or when the
\* close of the HDF5 file raised, and of the HDF5 file when it was opened.
C17_StoreResourcesReleased ==
    Ended =>
        /\ tmp_file /= "none" => "tmp_file.close" \in teardown
        /\ hdf5_root_file /= "none" => "hdf5_root_file.close" \in teardown

\* The exceptions of a failing write to the store or to the sink.
WriteFailures == {"storage_failure", "output_failure"}

\* C18: a failure of a write to the store or to the sink while a reading
\* is processed leaves the line loop with the exception in flight; from
\* then on no line is read, the residual flush is not run, no record is
\* written, and the teardown passes the exception on to the caller.
C18_WriteFailureIsFatal ==
    [][/\ (pc = "parse" /\ exc' \in WriteFailures) => pc' = "exit"
       /\ exc \in WriteFailures =>
              /\ pc = "exit"
              /\ pc' = "failed"
              /\ exc' = exc
              /\ line_index' = line_index
              /\ hdf5_beacons_group' = hdf5_beacons_group
              /\ Records' = Records
              /\ UNCHANGED history]_vars

\* C18 witness: a write to the store failed on a reading before the input
\* was exhausted; the run has failed with that exception, the groups of the
\* store were not flushed and no record was written.
C18_Witness ==
    /\ pc = "failed"
    /\ exc = "storage_failure"
    /\ line_index <= MaxFaultLines
    /\ DOMAIN hdf5_beacons_group /= {}
    /\ Records = <<>>
    /\ json_results_file = "closed"

\* C19: when a step of the setup raises (the sink cannot open its file, the
\* store cannot be created), no input line is read, nothing is written to
\* a sink that was not opened, and the run ends as a failure whose
\* exception for the caller is that storage or output error.
C19_SetupFailureReachesCaller ==
    hdf5_storage = "None" =>
        /\ line_index = 1
        /\ input_so_far = "nothing"
        /\ received = {}
        /\ json_results_file = "none" => file_content = <<>>
        /\ Ended => pc = "failed" /\ exc \in WriteFailures

\* C20: a run in whose teardown the close of the Output Sink raised, in the
\* write of the closing marker or in the close of the file, ends as a
\* failure for the caller, never as a normal completion.
C20_CloseFailureIsFatal ==
    (Ended /\ "sink_error" \in teardown) => pc = "failed"

ProcessesFirst(k) ==
    /\ pc = "parse"
    /\ received_count'[k] = received_count[k] + 1
    /\ k \notin DOMAIN hdf5_beacons_group

\* The groups of the keys other than k are what they were.
OthersUnchanged(k) ==
    /\ DOMAIN hdf5_beacons_group' \ {k} = DOMAIN hdf5_beacons_group \ {k}
    /\ \A other \in DOMAIN hdf5_beacons_group \ {k} :
           hdf5_beacons_group'[other] = hdf5_beacons_group[other]

\* C22: right after a completion-path emission for key k the store has no
\* group for k and the other groups are unchanged; a reading for a key
\* without a group, as k is then, creates a group holding that reading
\* alone with count 1 and emits nothing.
C22_RemovalOnCompletion ==
    [][\A k \in BeaconKeys :
          /\ CompletesGroup(k) =>
                 /\ k \notin DOMAIN hdf5_beacons_group'
                 /\ OthersUnchanged(k)
          /\ ProcessesFirst(k) =>
                 /\ k \in DOMAIN hdf5_beacons_group'
                 /\ DOMAIN hdf5_beacons_group'[k].datasets
                        = {Processed.ant_id}
                 /\ hdf5_beacons_group'[k].datasets[Processed.ant_id]
                        = Processed.dbm_ant
                 /\ hdf5_beacons_group'[k].sampled_antennas_count = 1
                 /\ OthersUnchanged(k)
                 /\ Records' = Records
                 /\ emit_log' = emit_log
                 /\ exc' = "none"]_vars

\* C22 witness: a key was emitted on the completion path and the reading
\* that followed for it sits alone in a fresh group with count 1.
C22_Witness ==
    /\ pc = "parse"
    /\ ExpectedSize >= 2
    /\ \E k \in BeaconKeys :
           /\ \E i \in LogOf(k) : emit_log[i].path = "completion"
           /\ received_count[k] = ExpectedSize + 1
           /\ last_document /= None
           /\ beacon_key(last_document[1]) = k
           /\ k \in DOMAIN hdf5_beacons_group
           /\ hdf5_beacons_group[k].sampled_antennas_count = 1
           /\ DOMAIN hdf5_beacons_group[k].datasets
                  = {last_document[1].ant_id}

\* ------------------------------------------- the parser on trailing characters
\* The line cut just after its last closing brace.
TruncatedAfterBrace(raw) == SubSeq(raw, 1, LastClosingBrace(raw))

\* Something follows the last closing brace of the line.
HasTrailingCharacters(raw) == LastClosingBrace(raw) < Len(raw)

\* The input lines that start with an opening brace and whose parse result
\* differs from that of the line cut after its last closing brace.
TruncationMatters ==
    [n \in 1..MaxAnt |->
        {raw \in InputLines(SubSeq(ANTENNA_IDS, 1, n)) :
            /\ ObjectLine(raw)
            /\ parse_line(raw) /= parse_line(TruncatedAfterBrace(raw))}]

\* C23: a line that starts with an opening brace gives the same parse
\* result, the same document or the same skip, as the line cut just after
\* its last closing brace.
C23_TrailingCharactersDiscarded == TruncationMatters[ExpectedSize] = {}

\* C23 witness: the document processed last comes only from lines with
\* characters after the closing brace, one such line was read, and the
\* input has lines with trailing characters that are skipped.
C23_Witness ==
    /\ pc = "parse"
    /\ last_document /= None
    /\ \A raw \in LinesThat("document") :
           parse_line(raw).document = last_document
               => HasTrailingCharacters(raw)
    /\ \E raw \in LinesThat("invalid") : HasTrailingCharacters(raw)
    /\ \E raw \in LinesThat("document") :
           /\ HasTrailingCharacters(raw)
           /\ parse_line(TruncatedAfterBrace(raw)).document = last_document

\* ------------------------------------------------ the output on every exit path
\* initialize wrote the opening marker into the results file.
SinkInitialized == file_content /= <<>> /\ file_content[1] = OpenMarker

\* C24: when the Output Sink was initialized, however the guarded run ends,
\* also with an exception after some records were emitted, the content is
\* the opening marker, the emitted records separated by commas, and the
\* closing marker, written once and after the last record.
C24_ClosingMarkerOnEveryExit ==
    (Ended /\ SinkInitialized) => file_content = Framed(emit_log, TRUE)

\* ------------------------------------------------------ the order of the output
\* No entry of the completion path follows an entry of the residual flush.
CompletionsFirst(log) ==
    \A i, j \in DOMAIN log :
        (i < j /\ log[i].path = "residual") => log[j].path = "residual"

\* C25: every record of the completion path precedes every record of the
\* residual flush, and the records of the completion path stand in the
\* order of their completing readings: the record of a completing reading
\* is appended, for the key of that reading, after all records written
\* before it, none of which comes from the residual flush, and the flush
\* appends its records after them.
C25_OutputOrdering ==
    [][/\ CompletionsFirst(emit_log')
       /\ Len(Records') = Len(emit_log')
       /\ \A i \in DOMAIN emit_log' : Records'[i].beacon = emit_log'[i].beacon
       /\ (pc = "parse" /\ Records' /= Records) =>
              /\ Records' = Append(Records, Records'[Len(Records')])
              /\ Records'[Len(Records')].beacon = beacon_key(Processed)
              /\ emit_log'[Len(emit_log')].path = "completion"
              /\ \A i \in DOMAIN emit_log : emit_log[i].path = "completion"
       /\ pc = "flush" =>
              /\ SubSeq(Records', 1, Len(Records)) = Records
              /\ \A i \in DOMAIN NewEntries :
                     NewEntries[i].path = "residual"]_vars

\* C25 witness: a run that emitted the record of a completed key and then,
\* in the residual flush, the record of another key.
C25_Witness ==
    /\ CompletedNormally
    /\ Len(emit_log) = 2
    /\ emit_log[1].path = "completion"
    /\ emit_log[2].path = "residual"
    /\ emit_log[1].beacon /= emit_log[2].beacon
    /\ Len(Records) = 2

\* ------------------------------------------------------- the groups of the store
\* The loop of the parse is between two lines, or past the last one.
BetweenLines == pc \in {"parse", "flush"}

\* C26: with two or more expected ids, between lines every group of the
\* store has an antenna map with at least one entry and a count from 1 to
\* the number of expected ids less one, and the count is the number of
\* readings received for the key since the group was created: 1 after the
\* reading that created it, one more after each further reading, and
\* unchanged, like the whole group, by the lines of other keys.
C26_StoreInvariant ==
    [][ExpectedSize >= 2 =>
          /\ BetweenLines' =>
                 \A k \in DOMAIN hdf5_beacons_group' :
                     LET group == hdf5_beacons_group'[k]
                     IN  /\ DOMAIN group.datasets /= {}
                         /\ 1 <= group.sampled_antennas_count
                         /\ group.sampled_antennas_count <= ExpectedSize - 1
          /\ \A k \in BeaconKeys :
                 /\ (ProcessesFirst(k) /\ BetweenLines') =>
                        /\ k \in DOMAIN hdf5_beacons_group'
                        /\ hdf5_beacons_group'[k].sampled_antennas_count = 1
                 /\ (/\ ProcessesExisting(k)
                     /\ BetweenLines'
                     /\ k \in DOMAIN hdf5_beacons_group') =>
                        hdf5_beacons_group'[k].sampled_antennas_count
                            = hdf5_beacons_group[k].sampled_antennas_count + 1
                 /\ (/\ k \in DOMAIN hdf5_beacons_group
                     /\ received_count'[k] = received_count[k]) =>
                        /\ k \in DOMAIN hdf5_beacons_group'
                        /\ hdf5_beacons_group'[k] = hdf5_beacons_group[k]]_vars

\* C26 witness: with three expected ids, between two lines, one key has a
\* group with one entry and count 1 that was created anew after the key
\* was completed, four readings of the key having been received.
C26_Witness ==
    /\ pc = "parse"
    /\ ExpectedSize = 3
    /\ \E k \in DOMAIN hdf5_beacons_group :
           /\ hdf5_beacons_group[k].sampled_antennas_count = 1
           /\ Cardinality(DOMAIN hdf5_beacons_group[k].datasets) = 1
           /\ received_count[k] = 4

\* ------------------------------------------------- the first reading of a key
\* The entries of the log for key k.
EntriesOf(k) == {i \in DOMAIN emit_log : emit_log[i].beacon = k}

\* C27: the first reading of a key writes no record, whatever the number of
\* expected ids: it is stored with count 1.  With one expected id no group
\* completes while lines are read: every record comes from the residual
\* flush, which in a run that ends normally writes one for each key read.
C27_FirstReadingNeverEmits ==
    [][/\ \A k \in BeaconKeys :
              ProcessesFirst(k) =>
                  /\ Records' = Records
                  /\ results_records_count' = results_records_count
                  /\ k \in DOMAIN hdf5_beacons_group'
                  /\ hdf5_beacons_group'[k].sampled_antennas_count = 1
       /\ ExpectedSize = 1 =>
              /\ pc = "parse" => Records' = Records
              /\ \A i \in DOMAIN emit_log' : emit_log'[i].path = "residual"
              /\ pc' = "done" =>
                     \A k \in BeaconKeys :
                         received_count[k] > 0 =>
                             Cardinality(EntriesOf(k)') = 1]_vars

\* C27 witness: with one expected id a run ended normally in which one key
\* had two readings and another key one, and each has its one record, from
\* the residual flush.
C27_Witness ==
    /\ CompletedNormally
    /\ ExpectedSize = 1
    /\ \E k1, k2 \in BeaconKeys :
           /\ received_count[k1] = 2
           /\ received_count[k2] = 1
           /\ Cardinality(EntriesOf(k1)) = 1
           /\ Cardinality(EntriesOf(k2)) = 1
    /\ \A i \in DOMAIN emit_log : emit_log[i].path = "residual"
====
